---- MODULE Spec2Model ----
(***************************************************************************)
(* The discussion-forum controller of                                      *)
(* lms/djangoapps/django_comment_client/base/views.py as a state machine.  *)
(*                                                                         *)
(* The views keep no state between requests: all durable state lives in    *)
(* the comment service, the settings and the course.  A behaviour starts   *)
(* from one content of the comment service (a thread with a chain of       *)
(* nested comments) and one setting of the configuration, and handles one  *)
(* request.  Each handler is one action.  The action runs the permission   *)
(* gate and the handler body in the order of the code and records, in req, *)
(* the request, every call made to a collaborator in the order it was      *)
(* made, the notifications published and the response.                     *)
(*                                                                         *)
(* Texts are sequences of one-character strings, so that strip() and       *)
(* lower() are computed.  None is the empty sequence and a present value   *)
(* v of an optional field is the one-element sequence <<v>>.               *)
(***************************************************************************)
EXTENDS Integers, Sequences, FiniteSets, TLC

VARIABLES
    threads,    \* comment service: thread id -> thread attributes
    comments,   \* comment service: comment id -> comment attributes
    settings,   \* cc_settings.MAX_COMMENT_DEPTH and settings.FEATURES
    req         \* the request handled, with its calls and response

vars == <<threads, comments, settings, req>>

-----------------------------------------------------------------------------
(* Bounds of the model *)

MaxUsers == 2       \* users have the ids 1..MaxUsers
MaxDepth == 1       \* the seeded comments have the depths 0..MaxDepth

Users == 1..MaxUsers

-----------------------------------------------------------------------------
(* Python values *)

None == <<>>
Some(v) == <<v>>

Whitespace == {" ", "\t", "\n"}

RECURSIVE lstrip(_)
lstrip(s) ==
    IF s = <<>> THEN <<>>
    ELSE IF Head(s) \in Whitespace THEN lstrip(Tail(s)) ELSE s

RECURSIVE rstrip(_)
rstrip(s) ==
    IF s = <<>> THEN <<>>
    ELSE IF s[Len(s)] \in Whitespace THEN rstrip(SubSeq(s, 1, Len(s) - 1)) ELSE s

\* str.strip()
strip(s) == rstrip(lstrip(s))

lower_char(c) ==
    CASE c = "T" -> "t"
      [] c = "R" -> "r"
      [] c = "U" -> "u"
      [] c = "E" -> "e"
      [] OTHER -> c

\* str.lower()
lower(s) == [i \in 1..Len(s) |-> lower_char(s[i])]

Digits == <<"0", "1", "2", "3", "4", "5", "6", "7", "8", "9">>

\* str(n) of a natural number, as the comment service returns user ids
RECURSIVE str(_)
str(n) == IF n < 10 THEN <<Digits[n + 1]>> ELSE str(n \div 10) \o <<Digits[(n % 10) + 1]>>

digit_value(c) == (CHOOSE i \in 1..10 : Digits[i] = c) - 1

\* int(s) of a string of decimal digits
RECURSIVE int(_)
int(s) ==
    IF Len(s) = 1 THEN digit_value(s[1])
    ELSE 10 * int(SubSeq(s, 1, Len(s) - 1)) + digit_value(s[Len(s)])

\* dict.get(key, default)
get(d, key, default) == IF key \in DOMAIN d THEN d[key] ELSE default

S_true == <<"t", "r", "u", "e">>
S_false == <<"f", "a", "l", "s", "e">>

\* post.get(key, 'false').lower() == 'true'
flag(post, key) == lower(get(post, key, S_false)) = S_true

-----------------------------------------------------------------------------
(* Responses *)

\* JsonError(msg, status): the error envelope {"errors": ...}
JsonError(msg, status) ==
    [status |-> status, envelope |-> "json", error |-> msg, content |-> None,
     annotated |-> FALSE]

\* JsonResponse(data); annotated when the data carries annotated_content_info
JsonResponse(data, annotated) ==
    [status |-> 200, envelope |-> "json", error |-> "", content |-> Some(data),
     annotated |-> annotated]

\* HttpResponseBadRequest(msg): a plain-text body
HttpResponseBadRequest(msg) ==
    [status |-> 400, envelope |-> "text", error |-> msg, content |-> None,
     annotated |-> FALSE]

\* an exception that leaves the view: the view makes no response
Raised(exc) ==
    [status |-> 0, envelope |-> "none", error |-> exc, content |-> None,
     annotated |-> FALSE]

-----------------------------------------------------------------------------
(* The context of a request: the comment service as the request sees it,  *)
(* the calls made so far, the notifications published so far and the      *)
(* invocations of the wrapped handler.                                     *)

Ctx0 == [threads |-> threads, comments |-> comments, calls |-> <<>>,
         published |-> <<>>, invoked |-> <<>>]

Call(op, on, id, by, arg) == [op |-> op, on |-> on, id |-> id, by |-> by, arg |-> arg]

called(c, call) == [c EXCEPT !.calls = Append(@, call)]

\* what a handler leaves behind: the context and the response
Done(c, response) == [response |-> response, ctx |-> c]

MutationOps == {"save", "delete", "follow", "unfollow", "vote", "unvote",
                "flagAbuse", "unFlagAbuse", "pin", "un_pin"}

new_id(store) == IF DOMAIN store = {} THEN 1
                 ELSE (CHOOSE i \in DOMAIN store : \A j \in DOMAIN store : j <= i) + 1

put(store, id, obj) == [i \in DOMAIN store \cup {id} |-> IF i = id THEN obj ELSE store[i]]

remove(store, id) == [i \in DOMAIN store \ {id} |-> store[i]]

-----------------------------------------------------------------------------
(* Collaborators, as the views call them *)

\* cc.Thread.find(thread_id) and cc.Comment.find(comment_id): a remote read,
\* which raises when the id is absent
find(c, on, id) == called(c, Call("find", on, id, 0, ""))

found(c, on, id) == IF on = "thread" THEN id \in DOMAIN c.threads
                    ELSE id \in DOMAIN c.comments

\* user.follow(thread), user.vote(thread, value), thread.pin(user, id), ...:
\* a remote mutation the views never read back
mutate(c, op, on, id, by, arg) == called(c, Call(op, on, id, by, arg))

\* get_course_with_access(request.user, action, course_key), get_course_by_id
course_lookup(c, by, action) == called(c, Call("get_course", "course", 0, by, action))

\* ajax_content_response: the content annotated for the user, which reads the user
ajax_content_response(rq, c, data) ==
    Done(called(c, Call("retrieve", "user", rq.user, rq.user, "")),
         JsonResponse(data, TRUE))

\* the response of the handlers that serve static and ajax submissions
respond(rq, c, data) ==
    IF rq.env.ajax THEN ajax_content_response(rq, c, data)
    ELSE Done(c, JsonResponse(data, FALSE))

raise(c, exc) == Done(c, Raised(exc))

Entity(on, id) == [on |-> on, id |-> id]

-----------------------------------------------------------------------------
(* publish_discussion_notification *)

Notification(msg_type_name, course_id, to, action_user_id, title, link) ==
    [to |-> to, action_user_id |-> action_user_id, msg_type |-> msg_type_name,
     namespace |-> course_id, thread_title |-> title,
     link_to_thread |-> link]

\* the context after the publisher ran; fault names the call that raises
publish_discussion_notification(c, fault, msg) ==
    LET c1 == called(c, Call("get_notification_type", "notification", msg.to, msg.action_user_id, msg.msg_type))
        c2 == called(c1, Call("register_notification_type", "notification", msg.to, msg.action_user_id, msg.msg_type))
        c3 == called(c2, Call("publish_notification_to_user", "notification", msg.to, msg.action_user_id, msg.msg_type))
    IN  IF fault = "get" THEN c1
        ELSE IF fault = "register" THEN c2
        ELSE IF fault = "publish" THEN c3
        ELSE [c3 EXCEPT !.published = Append(@, msg)]

\* the flag taken for set when the settings do not have it
notifications_enabled_by_default == get(settings.FEATURES, "NOTIFICATIONS_ENABLED", TRUE)

\* settings.FEATURES.get("NOTIFICATIONS_ENABLED", False)
notifications_enabled == get(settings.FEATURES, "NOTIFICATIONS_ENABLED", FALSE)

\* the comparison left out: the author is notified of their own action
should_notify_always(action_user_id, original_poster_id) == TRUE

\* not action_user_id == original_poster_id
should_notify(action_user_id, original_poster_id) ==
    ~(action_user_id = original_poster_id)

\* the notification block shared by the three handlers that notify: the
\* context after it
notification_block(rq, c, thread_id, msg_type_name) ==
    LET thread == c.threads[thread_id]
        action_user_id == rq.user
        original_poster_id == int(thread.user_id)
        msg == Notification(msg_type_name, "course", original_poster_id,
                            action_user_id, thread.title, thread_id)
    IN  IF should_notify(action_user_id, original_poster_id)
        THEN publish_discussion_notification(c, rq.env.fault, msg)
        ELSE c

\* the publisher is called and raises: the exception leaves the handler
notification_raises(rq, c, thread_id) ==
    /\ should_notify(rq.user, int(c.threads[thread_id].user_id))
    /\ rq.env.fault # "none"

-----------------------------------------------------------------------------
(* Thread handlers *)

S_title_empty == "Title can't be empty"
S_body_empty == "Body can't be empty"

\* the check without strip(): a whitespace-only text passes
blank_unstripped(post, key) == key \notin DOMAIN post \/ post[key] = <<>>

\* 'key' not in post or not post[key].strip()
blank(post, key) == key \notin DOMAIN post \/ strip(post[key]) = <<>>

\* the flag of the payload taken whatever the course allows
anonymity_as_asked(allowed, post, key) == flag(post, key)

\* anonymity as the course allows it
anonymity(allowed, post, key) == IF allowed THEN flag(post, key) ELSE FALSE

\* the group id never set on the thread
with_group_dropped(thread, group_id) == thread

\* thread.group_id = group_id, when the course cohorts the thread
with_group(thread, group_id) ==
    IF group_id # None THEN [thread EXCEPT !.group_id = group_id] ELSE thread

create_thread(rq, c) ==
    LET post == rq.post
        course == rq.env.course
        c1 == course_lookup(c, rq.user, "load")
        anonymous == anonymity(course.allow_anonymous, post, "anonymous")
        anonymous_to_peers == anonymity(course.allow_anonymous_to_peers, post, "anonymous_to_peers")
        group == rq.env.group
        id == new_id(c1.threads)
        thread == [title |-> post.title,
                   user_id |-> str(rq.user),
                   group_id |-> None,
                   anonymous |-> anonymous,
                   anonymous_to_peers |-> anonymous_to_peers,
                   body |-> post.body,
                   thread_type |-> post.thread_type,
                   commentable_id |-> rq.kwargs.commentable_id,
                   closed |-> FALSE]
        c2 == mutate([c1 EXCEPT !.threads = put(@, id, with_group(thread, group.value))],
                     "save", "thread", id, rq.user, "")
        c3 == IF flag(post, "auto_subscribe")
              THEN mutate(c2, "follow", "thread", id, rq.user, "")
              ELSE c2
    IN  IF ~course.access THEN raise(c1, "Http404")
        ELSE IF blank(post, "title") THEN Done(c1, JsonError(S_title_empty, 400))
        ELSE IF blank(post, "body") THEN Done(c1, JsonError(S_body_empty, 400))
        ELSE IF "thread_type" \notin DOMAIN post THEN raise(c1, "MultiValueDictKeyError")
        ELSE IF group.raises THEN Done(c1, HttpResponseBadRequest("Invalid cohort id"))
        ELSE respond(rq, c3, Entity("thread", id))

\* the field set from the payload whether or not the payload has the key
overwrite_always(thread, post, key) == [thread EXCEPT ![key] = get(post, key, None)]

\* if key in request.POST: thread.key = request.POST[key]
overwrite(thread, post, key) ==
    IF key \in DOMAIN post THEN [thread EXCEPT ![key] = post[key]] ELSE thread

\* every topic taken for one of the course
known_topic_any(post, course) == TRUE

\* request.POST.get("commentable_id") in get_discussion_categories_ids(course)
known_topic(post, course) == post.commentable_id \in course.categories

update_thread(rq, c) ==
    LET post == rq.post
        id == rq.kwargs.thread_id
        c1 == find(c, "thread", id)
        t0 == c1.threads[id]
        t1 == [t0 EXCEPT !.body = post.body, !.title = post.title]
        t2 == overwrite(t1, post, "thread_type")
        has_topic == "commentable_id" \in DOMAIN post
        c2 == IF has_topic THEN course_lookup(c1, rq.user, "load") ELSE c1
        t3 == IF has_topic THEN [t2 EXCEPT !.commentable_id = post.commentable_id] ELSE t2
        c3 == mutate([c2 EXCEPT !.threads = put(@, id, t3)], "save", "thread", id, rq.user, "")
    IN  IF blank(post, "title") THEN Done(c, JsonError(S_title_empty, 400))
        ELSE IF blank(post, "body") THEN Done(c, JsonError(S_body_empty, 400))
        ELSE IF ~found(c, "thread", id) THEN raise(c1, "CommentClientRequestError")
        ELSE IF has_topic /\ ~rq.env.course.access THEN raise(c2, "Http404")
        ELSE IF has_topic /\ ~known_topic(post, rq.env.course)
             THEN Done(c2, JsonError("Topic doesn't exist", 400))
        ELSE respond(rq, c3, Entity("thread", id))

-----------------------------------------------------------------------------
(* Comment handlers *)

S_too_deep == "Comment level too deep"

\* the thread the comment service files a new comment under: the given
\* thread, or the thread of the parent comment
comment_thread(c, thread_id, parent_id) ==
    IF parent_id = None THEN thread_id ELSE c.comments[parent_id[1]].thread_id

\* the depth the comment service gives a new comment
comment_depth(c, parent_id) ==
    IF parent_id = None THEN 0 ELSE c.comments[parent_id[1]].depth + 1

_create_comment(rq, c, thread_id, parent_id) ==
    LET post == rq.post
        course == rq.env.course
        c1 == course_lookup(c, rq.user, "load")
        anonymous == anonymity(course.allow_anonymous, post, "anonymous")
        anonymous_to_peers == anonymity(course.allow_anonymous_to_peers, post, "anonymous_to_peers")
        id == new_id(c1.comments)
        comment == [thread_id |-> comment_thread(c1, thread_id, parent_id),
                    user_id |-> str(rq.user),
                    anonymous |-> anonymous,
                    anonymous_to_peers |-> anonymous_to_peers,
                    body |-> post.body,
                    parent_id |-> parent_id,
                    depth |-> comment_depth(c1, parent_id),
                    endorsed |-> FALSE,
                    endorsement_user_id |-> None]
        c2 == mutate([c1 EXCEPT !.comments = put(@, id, comment)], "save", "comment", id, rq.user, "")
        c3 == IF flag(post, "auto_subscribe")
              THEN mutate(c2, "follow", "thread", comment.thread_id[1], rq.user, "")
              ELSE c2
        c4 == find(c3, "thread", thread_id[1])
        c5 == notification_block(rq, c4, thread_id[1],
                                 "open-edx.lms.discussions.reply-to-thread")
    IN  IF blank(post, "body") THEN Done(c, JsonError(S_body_empty, 400))
        ELSE IF ~course.access THEN raise(c1, "Http404")
        ELSE IF notifications_enabled /\ parent_id = None
             THEN IF notification_raises(rq, c4, thread_id[1])
                  THEN raise(c5, "NotificationError")
                  ELSE respond(rq, c5, Entity("comment", id))
        ELSE respond(rq, c3, Entity("comment", id))

create_comment(rq, c) ==
    LET max == settings.MAX_COMMENT_DEPTH IN
    IF max # None /\ max[1] < 0 THEN Done(c, JsonError(S_too_deep, 400))
    ELSE _create_comment(rq, c, Some(rq.kwargs.thread_id), None)

\* the depth compared with < in place of <=
create_sub_comment_off_by_one(rq, c) ==
    LET max == settings.MAX_COMMENT_DEPTH
        id == rq.kwargs.comment_id
        c1 == IF max # None THEN find(c, "comment", id) ELSE c
    IN  IF max # None /\ max[1] < c1.comments[id].depth
        THEN Done(c1, JsonError(S_too_deep, 400))
        ELSE _create_comment(rq, c1, None, Some(id))

create_sub_comment(rq, c) ==
    LET max == settings.MAX_COMMENT_DEPTH
        id == rq.kwargs.comment_id
        c1 == IF max # None THEN find(c, "comment", id) ELSE c
    IN  IF max # None /\ max[1] <= c1.comments[id].depth
        THEN Done(c1, JsonError(S_too_deep, 400))
        ELSE _create_comment(rq, c1, None, Some(id))

update_comment(rq, c) ==
    LET id == rq.kwargs.comment_id
        c1 == find(c, "comment", id)
        comment == [c1.comments[id] EXCEPT !.body = rq.post.body]
        c2 == mutate([c1 EXCEPT !.comments = put(@, id, comment)], "save", "comment", id, rq.user, "")
    IN  IF blank(rq.post, "body") THEN Done(c1, JsonError(S_body_empty, 400))
        ELSE respond(rq, c2, Entity("comment", id))

endorse_comment(rq, c) ==
    LET id == rq.kwargs.comment_id
        c1 == find(c, "comment", id)
        comment == [c1.comments[id] EXCEPT !.endorsed = flag(rq.post, "endorsed"),
                                           !.endorsement_user_id = Some(rq.user)]
        c2 == mutate([c1 EXCEPT !.comments = put(@, id, comment)], "save", "comment", id, rq.user, "")
    IN  Done(c2, JsonResponse(Entity("comment", id), FALSE))

\* the comment service deletes a comment with the replies under it
RECURSIVE under(_, _, _)
under(store, id, root) ==
    id = root \/ (store[id].parent_id # None /\ under(store, store[id].parent_id[1], root))

delete_comment(rq, c) ==
    LET id == rq.kwargs.comment_id
        c1 == find(c, "comment", id)
        kept == {i \in DOMAIN c1.comments : ~under(c1.comments, i, id)}
        c2 == mutate([c1 EXCEPT !.comments = [i \in kept |-> @[i]]], "delete", "comment", id, rq.user, "")
    IN  Done(c2, JsonResponse(Entity("comment", id), FALSE))

delete_thread(rq, c) ==
    LET id == rq.kwargs.thread_id
        c1 == find(c, "thread", id)
        kept == {i \in DOMAIN c1.comments : c1.comments[i].thread_id # Some(id)}
        c2 == mutate([c1 EXCEPT !.threads = remove(@, id),
                                !.comments = [i \in kept |-> @[i]]],
                     "delete", "thread", id, rq.user, "")
    IN  Done(c2, JsonResponse(Entity("thread", id), FALSE))

openclose_thread(rq, c) ==
    LET id == rq.kwargs.thread_id
        c1 == find(c, "thread", id)
        thread == [c1.threads[id] EXCEPT !.closed = flag(rq.post, "closed")]
        c2 == mutate([c1 EXCEPT !.threads = put(@, id, thread)], "save", "thread", id, rq.user, "")
    IN  Done(c2, JsonResponse(Entity("thread", id), FALSE))

-----------------------------------------------------------------------------
(* Voting, flagging, pinning, following *)

\* the handlers that find a thread or comment, make one call on it for the
\* user and return the content
act_on(rq, c, on, id, op, arg) ==
    Done(mutate(find(c, on, id), op, on, id, rq.user, arg),
         JsonResponse(Entity(on, id), FALSE))

vote_for_comment(rq, c) == act_on(rq, c, "comment", rq.kwargs.comment_id, "vote", rq.kwargs.value)

undo_vote_for_comment(rq, c) == act_on(rq, c, "comment", rq.kwargs.comment_id, "unvote", "")

\* the notification block run before the vote is made
vote_for_thread_notifying_first(rq, c) ==
    LET id == rq.kwargs.thread_id
        c1 == notification_block(rq, find(c, "thread", id), id,
                                 "open-edx.lms.discussions.post-upvoted")
        c2 == mutate(c1, "vote", "thread", id, rq.user, rq.kwargs.value)
    IN  IF notifications_enabled
        THEN IF notification_raises(rq, c, id) THEN raise(c1, "NotificationError")
             ELSE Done(c2, JsonResponse(Entity("thread", id), FALSE))
        ELSE Done(mutate(find(c, "thread", id), "vote", "thread", id, rq.user, rq.kwargs.value),
                  JsonResponse(Entity("thread", id), FALSE))

vote_for_thread(rq, c) ==
    LET id == rq.kwargs.thread_id
        c1 == mutate(find(c, "thread", id), "vote", "thread", id, rq.user, rq.kwargs.value)
        c2 == notification_block(rq, c1, id, "open-edx.lms.discussions.post-upvoted")
    IN  IF notifications_enabled
        THEN IF notification_raises(rq, c1, id) THEN raise(c2, "NotificationError")
             ELSE Done(c2, JsonResponse(Entity("thread", id), FALSE))
        ELSE Done(c1, JsonResponse(Entity("thread", id), FALSE))

undo_vote_for_thread(rq, c) == act_on(rq, c, "thread", rq.kwargs.thread_id, "unvote", "")

flag_abuse_for_thread(rq, c) == act_on(rq, c, "thread", rq.kwargs.thread_id, "flagAbuse", "")

flag_abuse_for_comment(rq, c) == act_on(rq, c, "comment", rq.kwargs.comment_id, "flagAbuse", "")

\* the removal of all flags granted to every user the handler's own permission
\* check lets in, moderator or not
remove_all_granted(rq) == rq.env.moderator \/ rq.env.staff \/ rq.env.permit

\* cached_has_permission(user, 'openclose_thread', course_key) or has_access(user, 'staff', course)
remove_all(rq) == rq.env.moderator \/ rq.env.staff

bool_arg(b) == IF b THEN "True" ELSE "False"

un_flag_abuse_for_thread(rq, c) ==
    act_on(rq, course_lookup(c, rq.user, "by_id"), "thread", rq.kwargs.thread_id,
           "unFlagAbuse", bool_arg(remove_all(rq)))

un_flag_abuse_for_comment(rq, c) ==
    act_on(rq, course_lookup(c, rq.user, "by_id"), "comment", rq.kwargs.comment_id,
           "unFlagAbuse", bool_arg(remove_all(rq)))

pin_thread(rq, c) == act_on(rq, c, "thread", rq.kwargs.thread_id, "pin", "")

un_pin_thread(rq, c) == act_on(rq, c, "thread", rq.kwargs.thread_id, "un_pin", "")


follow_thread(rq, c) ==
    LET id == rq.kwargs.thread_id
        c1 == mutate(find(c, "thread", id), "follow", "thread", id, rq.user, "")
        c2 == notification_block(rq, c1, id, "open-edx.lms.discussions.thread-followed")
    IN  IF notifications_enabled
        THEN IF notification_raises(rq, c1, id) THEN raise(c2, "NotificationError")
             ELSE Done(c2, JsonResponse(Entity("empty", 0), FALSE))
        ELSE Done(c1, JsonResponse(Entity("empty", 0), FALSE))

\* the handlers that find a thread, commentable or user, follow or unfollow
\* it for the user and return {}
follow_on(rq, c, on, id, op) ==
    Done(mutate(find(c, on, id), op, on, id, rq.user, ""), JsonResponse(Entity("empty", 0), FALSE))

follow_commentable(rq, c) == follow_on(rq, c, "commentable", rq.kwargs.commentable_id, "follow")

follow_user(rq, c) == follow_on(rq, c, "user", rq.kwargs.followed_user_id, "follow")

unfollow_thread(rq, c) == follow_on(rq, c, "thread", rq.kwargs.thread_id, "unfollow")

unfollow_commentable(rq, c) == follow_on(rq, c, "commentable", rq.kwargs.commentable_id, "unfollow")

unfollow_user(rq, c) == follow_on(rq, c, "user", rq.kwargs.followed_user_id, "unfollow")

-----------------------------------------------------------------------------
(* The views behind the gate, by name *)

\* fn: the view that the wrapper of the request calls
view(rq, c) ==
    CASE rq.handler = "create_thread" -> create_thread(rq, c)
      [] rq.handler = "update_thread" -> update_thread(rq, c)
      [] rq.handler = "create_comment" -> create_comment(rq, c)
      [] rq.handler = "create_sub_comment" -> create_sub_comment(rq, c)
      [] rq.handler = "update_comment" -> update_comment(rq, c)
      [] rq.handler = "delete_thread" -> delete_thread(rq, c)
      [] rq.handler = "delete_comment" -> delete_comment(rq, c)
      [] rq.handler = "endorse_comment" -> endorse_comment(rq, c)
      [] rq.handler = "openclose_thread" -> openclose_thread(rq, c)
      [] rq.handler = "vote_for_comment" -> vote_for_comment(rq, c)
      [] rq.handler = "undo_vote_for_comment" -> undo_vote_for_comment(rq, c)
      [] rq.handler = "vote_for_thread" -> vote_for_thread(rq, c)
      [] rq.handler = "undo_vote_for_thread" -> undo_vote_for_thread(rq, c)
      [] rq.handler = "flag_abuse_for_thread" -> flag_abuse_for_thread(rq, c)
      [] rq.handler = "un_flag_abuse_for_thread" -> un_flag_abuse_for_thread(rq, c)
      [] rq.handler = "flag_abuse_for_comment" -> flag_abuse_for_comment(rq, c)
      [] rq.handler = "un_flag_abuse_for_comment" -> un_flag_abuse_for_comment(rq, c)
      [] rq.handler = "pin_thread" -> pin_thread(rq, c)
      [] rq.handler = "un_pin_thread" -> un_pin_thread(rq, c)
      [] rq.handler = "follow_thread" -> follow_thread(rq, c)
      [] rq.handler = "follow_commentable" -> follow_commentable(rq, c)
      [] rq.handler = "follow_user" -> follow_user(rq, c)
      [] rq.handler = "unfollow_thread" -> unfollow_thread(rq, c)
      [] rq.handler = "unfollow_commentable" -> unfollow_commentable(rq, c)
      [] rq.handler = "unfollow_user" -> unfollow_user(rq, c)

-----------------------------------------------------------------------------
(* permitted: the permission gate *)

gate_kind(kwargs) ==
    IF "thread_id" \in DOMAIN kwargs THEN "thread"
    ELSE IF "comment_id" \in DOMAIN kwargs THEN "comment"
    ELSE "none"

gate_id(kwargs) ==
    IF "thread_id" \in DOMAIN kwargs THEN kwargs.thread_id
    ELSE IF "comment_id" \in DOMAIN kwargs THEN kwargs.comment_id
    ELSE 0

\* fetch_content of permitted: the context after the lookup, if any
fetch_content(kwargs, c) ==
    IF gate_kind(kwargs) = "none" THEN c ELSE find(c, gate_kind(kwargs), gate_id(kwargs))

fetch_raises(kwargs, c) ==
    gate_kind(kwargs) # "none" /\ ~found(c, gate_kind(kwargs), gate_id(kwargs))

\* the decision of check_permissions_by_view ignored
gate_open(rq, c) == IF fetch_raises(rq.kwargs, c) THEN "raise" ELSE "allow"

\* what the wrapper decides: the lookup raises, or
\* check_permissions_by_view allows or denies
gate(rq, c) ==
    IF fetch_raises(rq.kwargs, c) THEN "raise"
    ELSE IF rq.env.permit THEN "allow"
    ELSE "deny"

\* the call fn(request, *args, **kwargs) of the wrapper
invoke(rq, c) == view(rq, [c EXCEPT !.invoked = Append(@, rq)])

\* the wrapper permitted puts around the view fn of the request
permitted(rq, c) ==
    LET c1 == fetch_content(rq.kwargs, c)
        decision == gate(rq, c)
    IN  IF decision = "raise" THEN raise(c1, "CommentClientRequestError")
        ELSE IF decision = "allow" THEN invoke(rq, c1)
        ELSE Done(c1, JsonError("unauthorized", 401))

-----------------------------------------------------------------------------
(* upload *)

\* the first index of character ch in s, 0 when there is none
index(s, ch) ==
    IF \A i \in 1..Len(s) : s[i] # ch THEN 0
    ELSE CHOOSE i \in 1..Len(s) : s[i] = ch /\ \A j \in 1..(i - 1) : s[j] # ch

\* the last index of character ch in s, 0 when there is none
rindex(s, ch) ==
    IF \A i \in 1..Len(s) : s[i] # ch THEN 0
    ELSE CHOOSE i \in 1..Len(s) : s[i] = ch /\ \A j \in (i + 1)..Len(s) : s[j] # ch

before(s, i) == SubSeq(s, 1, i - 1)
after(s, i) == SubSeq(s, i + 1, Len(s))

\* the scheme before the first ":", when it is made of scheme characters
split_scheme(url) ==
    LET colon == index(url, ":") IN
    IF colon > 1 /\ \A i \in 1..(colon - 1) : url[i] \in {"h", "t", "p", "s", "f"}
    THEN [scheme |-> before(url, colon), rest |-> after(url, colon)]
    ELSE [scheme |-> <<>>, rest |-> url]

\* the netloc after a leading "//", up to the first of "/", "?" and "#"
split_netloc(p) ==
    LET url == after(p.rest, 2)
        ends == {i \in 1..Len(url) : url[i] \in {"/", "?", "#"}}
        stop == IF ends = {} THEN Len(url) + 1
                ELSE CHOOSE i \in ends : \A j \in ends : i <= j
    IN  IF Len(p.rest) >= 2 /\ p.rest[1] = "/" /\ p.rest[2] = "/"
        THEN [scheme |-> p.scheme, rest |-> SubSeq(url, stop, Len(url)),
              netloc |-> before(url, stop)]
        ELSE [scheme |-> p.scheme, rest |-> p.rest, netloc |-> <<>>]

\* the fragment after the first "#"
split_fragment(p) ==
    LET hash == index(p.rest, "#") IN
    [scheme |-> p.scheme, rest |-> IF hash > 0 THEN before(p.rest, hash) ELSE p.rest,
     netloc |-> p.netloc,
     fragment |-> IF hash > 0 THEN after(p.rest, hash) ELSE <<>>]

\* the query after the first "?"
split_query(p) ==
    LET mark == index(p.rest, "?") IN
    [scheme |-> p.scheme, rest |-> IF mark > 0 THEN before(p.rest, mark) ELSE p.rest, netloc |-> p.netloc,
     fragment |-> p.fragment,
     query |-> IF mark > 0 THEN after(p.rest, mark) ELSE <<>>]

\* the params after the first ";" of the last segment of the path
split_params(p) ==
    LET slash == rindex(p.rest, "/")
        semi == index(after(p.rest, slash), ";")
    IN  [scheme |-> p.scheme, netloc |-> p.netloc,
         fragment |-> p.fragment,
         query |-> p.query,
         path |-> IF semi > 0 THEN before(p.rest, slash + semi) ELSE p.rest,
         params |-> IF semi > 0 THEN after(p.rest, slash + semi) ELSE <<>>]

\* urlparse.urlparse(url): scheme://netloc/path;params?query#fragment, split
\* in the order the library splits it, each step on the value of the last
urlparse(url) ==
    CHOOSE parts \in
        {split_params(q) : q \in
            {split_query(f) : f \in
                {split_fragment(n) : n \in
                    {split_netloc(s) : s \in {split_scheme(url)}}}}} : TRUE

\* urlparse.urlunparse(parts)
urlunparse(parts) ==
    LET u1 == IF parts.params # <<>> THEN parts.path \o <<";">> \o parts.params
              ELSE parts.path
        rooted == IF u1 # <<>> /\ u1[1] # "/" THEN <<"/">> \o u1 ELSE u1
        u2 == IF parts.netloc # <<>> THEN <<"/", "/">> \o parts.netloc \o rooted
              ELSE u1
        u3 == IF parts.scheme # <<>> THEN parts.scheme \o <<":">> \o u2 ELSE u2
        u4 == IF parts.query # <<>> THEN u3 \o <<"?">> \o parts.query ELSE u3
    IN  IF parts.fragment # <<>> THEN u4 \o <<"#">> \o parts.fragment ELSE u4

\* cc_settings.ALLOWED_UPLOAD_FILE_TYPES and cc_settings.MAX_UPLOAD_FILE_SIZE
ALLOWED_UPLOAD_FILE_TYPES == {<<".", "p">>}
MAX_UPLOAD_FILE_SIZE == 2

S_upload_error == "Error uploading file. Please contact the site administrator. Thank you."

Stored(raises, msg, name) == [msg |-> msg, raises |-> raises, name |-> name]

\* util.file.store_uploaded_file: PermissionDenied for a file of a type that
\* is not allowed or over the size limit; any other exception when no file
\* was sent or the storage fails; else the name the file was stored under
store_uploaded_file(file, allowed_file_types, base_file_name, max_file_size, storage) ==
    IF file = None THEN Stored("Exception", "No file uploaded", <<>>)
    ELSE IF file[1].ext \notin allowed_file_types THEN Stored("PermissionDenied",
              "The file must end with one of the allowed extensions.", <<>>)
    ELSE IF file[1].size > max_file_size THEN Stored("PermissionDenied",
              "Maximum upload file size exceeded.", <<>>)
    ELSE IF storage.raises THEN Stored("Exception", storage.msg, <<>>)
    ELSE Stored("none", "", base_file_name \o file[1].ext)

UploadResult(msg, error, file_url) ==
    [msg |-> msg, error |-> error, on |-> "result", id |-> 0, file_url |-> file_url]

\* the message of every exception shown to the user
upload_error_leaking(stored) == stored.msg

\* the error of upload: the message of PermissionDenied, one fixed message
\* for any other exception, '' when the file was stored
upload_error(stored) ==
    IF stored.raises = "PermissionDenied" THEN stored.msg
    ELSE IF stored.raises = "Exception" THEN S_upload_error
    ELSE ""

upload(rq, c) ==
    LET stored == store_uploaded_file(rq.env.file, ALLOWED_UPLOAD_FILE_TYPES,
                                      rq.env.base_file_name, MAX_UPLOAD_FILE_SIZE,
                                      rq.env.storage)
        error == upload_error(stored)
        file_url == rq.env.storage.base \o stored.name \o rq.env.storage.suffix
        parsed_url == urlparse(file_url)
        stripped == urlunparse([parsed_url EXCEPT !.params = <<>>, !.query = <<>>,
                                                  !.fragment = <<>>])
    IN  IF error = ""
        THEN IF stored.raises # "none" THEN raise(c, "UnboundLocalError")
             ELSE Done(c, JsonResponse(UploadResult("Good", error, stripped), FALSE))
        ELSE Done(c, JsonResponse(UploadResult("", error, <<>>), FALSE))

-----------------------------------------------------------------------------
(* users *)

\* the username of the Django user with the id
username(u) == <<"u">> \o str(u)

UsersFound(list) == [on |-> "users", id |-> 0, users |-> list]

\* the comments of the user not counted
active_by_threads(counts) == counts.threads_count > 0

\* (cc_user['threads_count'] + cc_user['comments_count']) > 0
active(counts) == counts.threads_count + counts.comments_count > 0

users(rq, c) ==
    LET c1 == course_lookup(c, rq.user, "load_forum")
        matching == {u \in Users : username(u) = rq.post.username}
        matched_user == CHOOSE u \in matching : TRUE
        c2 == called(c1, Call("retrieve", "user", matched_user, rq.user, ""))
        counts == rq.env.counts
    IN  IF ~rq.env.course.access THEN Done(c1, JsonError("", 404))
        ELSE IF "username" \notin DOMAIN rq.post
             THEN Done(c1, JsonError("username parameter is required", 400))
        ELSE IF matching = {} THEN Done(c1, JsonResponse(UsersFound(<<>>), FALSE))
        ELSE IF active(counts)
             THEN Done(c2, JsonResponse(UsersFound(<<[id |-> matched_user,
                                                     username |-> username(matched_user)]>>),
                                        FALSE))
        ELSE Done(c2, JsonResponse(UsersFound(<<>>), FALSE))

-----------------------------------------------------------------------------
(* Requests and the inputs they are drawn from *)

Request(handler, user, kwargs, post, env) ==
    [post |-> post, user |-> user, env |-> env, kwargs |-> kwargs, handler |-> handler]

\* one field of a payload: absent when the value is None
field(key, value) == IF value = None THEN <<>> ELSE [k \in {key} |-> value[1]]

T_new == <<"n", "e", "w">>
T_old == <<"o", "l", "d">>
T_discussion == <<"d">>
T_question == <<"q">>

\* a title or body: missing, empty, whitespace only, or a text
Texts == {None, Some(<<>>), Some(<<" ", "\t">>), Some(T_new)}
Flags == {None, Some(S_true), Some(<<"T", "r", "u", "e">>), Some(S_false)}
Types == {None, Some(T_question)}

Categories == {1, 2}            \* the discussion category ids of the course
Topics == {1, 2, 3}            \* commentable ids asked for
ThreadIds == {1, 2}             \* thread 2 is absent at first
CommentIds == 1..(MaxDepth + 2) \* the last comment id is absent at first

Course(access, anonymous, anonymous_to_peers) ==
    [allow_anonymous |-> anonymous, allow_anonymous_to_peers |-> anonymous_to_peers,
     access |-> access, categories |-> Categories]


Group(raises, value) == [value |-> value, raises |-> raises]

Faults == {"none", "get", "register", "publish"}

\* the files sent: none, or one of a type and a size up to one over the limit
Files(max_file_size) ==
    {None} \cup {Some([ext |-> ext, size |-> size]) :
                    ext \in {<<".", "p">>, <<".", "x">>},
                    size \in 1..(max_file_size + 1)}

\* the file storage: whether saving raises and with what message, and the
\* URL it gives a stored name: base, name, suffix
Storage(raises, msg, base, suffix) ==
    [msg |-> msg, raises |-> raises, base |-> base, suffix |-> suffix]

\* the storages: working ones by the URL they give, failing ones by message
Storages(messages) ==
    {Storage(FALSE, "", base, suffix) :
        base \in {<<"h", "t", "t", "p", ":", "/", "/", "c", "d", "n", "/", "u", "/">>,
                  <<"/", "m", "/">>},
        suffix \in {<<>>, <<"?", "k", "=", "1">>, <<"#", "a">>,
                    <<";", "v", "?", "k", "#", "a">>}}
    \cup {Storage(TRUE, msg, <<>>, <<>>) : msg \in messages}

Counts(threads_count, comments_count) ==
    [threads_count |-> threads_count, comments_count |-> comments_count]

\* what the collaborators answer during the request
Env(permit) ==
    [ajax |-> FALSE, fault |-> "none", course |-> Course(TRUE, TRUE, TRUE),
     group |-> Group(FALSE, None), moderator |-> FALSE,
     staff |-> FALSE, permit |-> permit, file |-> None,
     base_file_name |-> <<>>, storage |-> Storage(FALSE, "", <<>>, <<>>),
     counts |-> Counts(0, 0)]

TextPost(title, body) ==
    field("title", title) @@ field("body", body) @@ field("thread_type", Some(T_discussion))

ThreadPost(type, anonymous, anonymous_to_peers, auto_subscribe) ==
    field("title", Some(T_new)) @@ field("body", Some(T_new))
    @@ field("thread_type", type) @@ field("anonymous", anonymous)
    @@ field("anonymous_to_peers", anonymous_to_peers)
    @@ field("auto_subscribe", auto_subscribe)

UpdatePost(title, body, type, topic) ==
    field("title", title) @@ field("body", body) @@ field("thread_type", type)
    @@ field("commentable_id", topic)

CommentPost(body, anonymous, anonymous_to_peers, auto_subscribe) ==
    field("body", body) @@ field("anonymous", anonymous)
    @@ field("anonymous_to_peers", anonymous_to_peers)
    @@ field("auto_subscribe", auto_subscribe)

\* the payloads and answers of create_comment and create_sub_comment
comment_inputs(handler, kwargs) ==
    {Request(handler, u, kw, CommentPost(b, None, None, None),
             [Env(permit) EXCEPT !.course = course]) :
        u \in Users, kw \in kwargs, b \in Texts, permit \in BOOLEAN,
        course \in {Course(a, a, a) : a \in BOOLEAN}}
    \cup
    {Request(handler, u, kw, CommentPost(Some(T_new), a, p, None),
             [Env(TRUE) EXCEPT !.course = course]) :
        u \in Users, kw \in kwargs, a \in Flags, p \in {None, Some(S_true)},
        course \in {Course(TRUE, x, y) : x, y \in BOOLEAN}}
    \cup
    {Request(handler, u, kw, CommentPost(Some(T_new), None, None, auto),
             [Env(TRUE) EXCEPT !.fault = fault, !.ajax = ajax]) :
        u \in Users, kw \in kwargs, auto \in {None, Some(S_true)},
        fault \in Faults, ajax \in BOOLEAN}

\* the requests of a handler that reads the given keys of its route and at
\* most one flag of the payload
plain_inputs(handler, kwargs, key) ==
    {Request(handler, u, kw, field(key, f), Env(permit)) :
        u \in Users, kw \in kwargs, f \in Flags, permit \in BOOLEAN}

on_thread == {[thread_id |-> id] : id \in ThreadIds}
on_comment == {[comment_id |-> id] : id \in CommentIds}
on_commentable == {[commentable_id |-> id] : id \in Topics}
on_user == {[followed_user_id |-> id] : id \in Users}
valued(kwargs) == {kw @@ [value |-> v] : kw \in kwargs, v \in {"up", "down"}}

\* the requests of a handler that reads only its route
route_inputs(handler, kwargs) ==
    {Request(handler, u, kw, <<>>, Env(permit)) :
        u \in Users, kw \in kwargs, permit \in BOOLEAN}

\* the requests of the handlers that may publish a notification
notifying_inputs(handler, kwargs) ==
    {Request(handler, u, kw, <<>>, [Env(permit) EXCEPT !.fault = fault]) :
        u \in Users, kw \in kwargs, permit \in BOOLEAN, fault \in Faults}

\* the requests of the handlers that remove an abuse flag
unflag_inputs(handler, kwargs) ==
    {Request(handler, u, kw, <<>>,
             [Env(permit) EXCEPT !.moderator = m, !.staff = st]) :
        u \in Users, kw \in kwargs, permit \in BOOLEAN, m \in BOOLEAN, st \in BOOLEAN}

-----------------------------------------------------------------------------
(* The state machine *)

Idle == [handler |-> "idle"]

SeedThread(author) ==
    [title |-> T_old, user_id |-> str(author), group_id |-> None,
     anonymous |-> FALSE, anonymous_to_peers |-> FALSE, body |-> T_old,
     thread_type |-> T_discussion, commentable_id |-> 1, closed |-> FALSE]

\* comment i is the reply to comment i - 1; comment 1 is a response to thread 1
SeedComment(i) ==
    [thread_id |-> Some(1), user_id |-> str(1), anonymous |-> FALSE,
     anonymous_to_peers |-> FALSE, body |-> T_old,
     parent_id |-> IF i = 1 THEN None ELSE Some(i - 1), depth |-> i - 1, endorsed |-> FALSE,
     endorsement_user_id |-> None]

Init ==
    /\ \E author \in Users : threads = [i \in {1} |-> SeedThread(author)]
    /\ comments = [i \in 1..(MaxDepth + 1) |-> SeedComment(i)]
    /\ settings \in
          [MAX_COMMENT_DEPTH : {None} \cup {Some(n) : n \in -1..(MaxDepth + 1)},
           FEATURES : {<<>>, [NOTIFICATIONS_ENABLED |-> TRUE],
                       [NOTIFICATIONS_ENABLED |-> FALSE]}]
    /\ req = Idle

\* the request is handled: what it did is recorded and the comment service
\* holds what the handler saved; gated tells a view behind @permitted
Handled(rq, gated, done) ==
    /\ req = Idle
    /\ req' = [post |-> rq.post, calls |-> done.ctx.calls, published |-> done.ctx.published,
               invoked |-> done.ctx.invoked, response |-> done.response, user |-> rq.user,
               env |-> rq.env, kwargs |-> rq.kwargs,
               handler |-> rq.handler, gated |-> gated]
    /\ threads' = done.ctx.threads
    /\ comments' = done.ctx.comments
    /\ UNCHANGED settings

CreateThread ==
    \E rq \in
        {Request("create_thread", u, [commentable_id |-> 1], TextPost(t, b),
                 [Env(permit) EXCEPT !.course = course]) :
            u \in Users, t \in Texts, b \in Texts, permit \in BOOLEAN,
            course \in {Course(a, a, a) : a \in BOOLEAN}}
        \cup
        {Request("create_thread", u, [commentable_id |-> 1],
                 ThreadPost(Some(T_question), a, p, None),
                 [Env(TRUE) EXCEPT !.course = course]) :
            u \in Users, a \in Flags, p \in {None, Some(S_true)},
            course \in {Course(TRUE, x, y) : x, y \in BOOLEAN}}
        \cup
        {Request("create_thread", u, [commentable_id |-> 1],
                 ThreadPost(type, None, None, auto),
                 [Env(TRUE) EXCEPT !.group = group, !.ajax = ajax]) :
            u \in Users, type \in Types, auto \in {None, Some(S_true)},
            group \in {Group(TRUE, None), Group(FALSE, None), Group(FALSE, Some(7))}, ajax \in BOOLEAN} :
        Handled(rq, TRUE, permitted(rq, Ctx0))

UpdateThread ==
    \E rq \in
        {Request("update_thread", u, [thread_id |-> id], UpdatePost(t, b, None, None),
                 Env(permit)) :
            u \in Users, id \in ThreadIds, t \in Texts, b \in Texts, permit \in BOOLEAN}
        \cup
        {Request("update_thread", u, [thread_id |-> 1],
                 UpdatePost(Some(T_new), b, type, topic),
                 [Env(TRUE) EXCEPT !.course = course, !.ajax = ajax]) :
            u \in Users, b \in {Some(T_new), Some(T_old)}, type \in Types,
            topic \in {None} \cup {Some(x) : x \in Topics},
            course \in {Course(a, a, a) : a \in BOOLEAN}, ajax \in BOOLEAN} :
        Handled(rq, TRUE, permitted(rq, Ctx0))

CreateComment ==
    \E rq \in
        comment_inputs("create_comment", {[thread_id |-> id] : id \in ThreadIds}) :
        Handled(rq, TRUE, permitted(rq, Ctx0))

CreateSubComment ==
    \E rq \in
        comment_inputs("create_sub_comment", {[comment_id |-> id] : id \in CommentIds}) :
        Handled(rq, TRUE, permitted(rq, Ctx0))

UpdateComment ==
    \E rq \in
        {Request("update_comment", u, [comment_id |-> id], field("body", b),
                 [Env(permit) EXCEPT !.ajax = ajax]) :
            u \in Users, id \in CommentIds, b \in Texts, permit \in BOOLEAN,
            ajax \in BOOLEAN} :
        Handled(rq, TRUE, permitted(rq, Ctx0))

DeleteThread ==
    \E rq \in route_inputs("delete_thread", on_thread) :
        Handled(rq, TRUE, permitted(rq, Ctx0))

DeleteComment ==
    \E rq \in route_inputs("delete_comment", on_comment) :
        Handled(rq, TRUE, permitted(rq, Ctx0))

EndorseComment ==
    \E rq \in plain_inputs("endorse_comment", on_comment, "endorsed") :
        Handled(rq, TRUE, permitted(rq, Ctx0))

OpenCloseThread ==
    \E rq \in plain_inputs("openclose_thread", on_thread, "closed") :
        Handled(rq, TRUE, permitted(rq, Ctx0))

VoteForComment ==
    \E rq \in route_inputs("vote_for_comment", valued(on_comment)) :
        Handled(rq, TRUE, permitted(rq, Ctx0))

UndoVoteForComment ==
    \E rq \in route_inputs("undo_vote_for_comment", on_comment) :
        Handled(rq, TRUE, permitted(rq, Ctx0))

VoteForThread ==
    \E rq \in notifying_inputs("vote_for_thread", valued(on_thread)) :
        Handled(rq, TRUE, permitted(rq, Ctx0))

UndoVoteForThread ==
    \E rq \in route_inputs("undo_vote_for_thread", on_thread) :
        Handled(rq, TRUE, permitted(rq, Ctx0))

FlagAbuseForThread ==
    \E rq \in route_inputs("flag_abuse_for_thread", on_thread) :
        Handled(rq, TRUE, permitted(rq, Ctx0))

UnFlagAbuseForThread ==
    \E rq \in unflag_inputs("un_flag_abuse_for_thread", on_thread) :
        Handled(rq, TRUE, permitted(rq, Ctx0))

FlagAbuseForComment ==
    \E rq \in route_inputs("flag_abuse_for_comment", on_comment) :
        Handled(rq, TRUE, permitted(rq, Ctx0))

UnFlagAbuseForComment ==
    \E rq \in unflag_inputs("un_flag_abuse_for_comment", on_comment) :
        Handled(rq, TRUE, permitted(rq, Ctx0))

PinThread ==
    \E rq \in route_inputs("pin_thread", on_thread) :
        Handled(rq, TRUE, permitted(rq, Ctx0))

UnPinThread ==
    \E rq \in route_inputs("un_pin_thread", on_thread) :
        Handled(rq, TRUE, permitted(rq, Ctx0))

FollowThread ==
    \E rq \in notifying_inputs("follow_thread", on_thread) :
        Handled(rq, TRUE, permitted(rq, Ctx0))

FollowCommentable ==
    \E rq \in route_inputs("follow_commentable", on_commentable) :
        Handled(rq, TRUE, permitted(rq, Ctx0))

FollowUser ==
    \E rq \in route_inputs("follow_user", on_user) :
        Handled(rq, TRUE, permitted(rq, Ctx0))

UnfollowThread ==
    \E rq \in route_inputs("unfollow_thread", on_thread) :
        Handled(rq, TRUE, permitted(rq, Ctx0))

UnfollowCommentable ==
    \E rq \in route_inputs("unfollow_commentable", on_commentable) :
        Handled(rq, TRUE, permitted(rq, Ctx0))

UnfollowUser ==
    \E rq \in route_inputs("unfollow_user", on_user) :
        Handled(rq, TRUE, permitted(rq, Ctx0))


Upload ==
    \E rq \in
        {Request("upload", u, <<>>, <<>>,
                 [Env(TRUE) EXCEPT !.file = file, !.storage = storage,
                                   !.base_file_name = <<"1", "7", "4", "2">>]) :
            u \in Users, file \in Files(MAX_UPLOAD_FILE_SIZE),
            storage \in Storages({"", "disk full"})} :
        Handled(rq, FALSE, upload(rq, Ctx0))

UsersLookup ==
    \E rq \in
        {Request("users", u, <<>>, field("username", name),
                 [Env(TRUE) EXCEPT !.course = course, !.counts = Counts(t, k)]) :
            u \in Users, name \in {None, Some(<<"u", "0">>)} \cup {Some(username(x)) : x \in Users},
            course \in {Course(a, a, a) : a \in BOOLEAN}, t \in 0..1, k \in 0..1} :
        Handled(rq, FALSE, users(rq, Ctx0))

Next ==
    \/ CreateThread
    \/ UpdateThread
    \/ CreateComment
    \/ CreateSubComment
    \/ UpdateComment
    \/ DeleteThread
    \/ DeleteComment
    \/ EndorseComment
    \/ OpenCloseThread
    \/ VoteForComment
    \/ UndoVoteForComment
    \/ VoteForThread
    \/ UndoVoteForThread
    \/ FlagAbuseForThread
    \/ UnFlagAbuseForThread
    \/ FlagAbuseForComment
    \/ UnFlagAbuseForComment
    \/ PinThread
    \/ UnPinThread
    \/ FollowThread
    \/ FollowCommentable
    \/ FollowUser
    \/ UnfollowThread
    \/ UnfollowCommentable
    \/ UnfollowUser
    \/ Upload
    \/ UsersLookup

Spec == Init /\ [][Next]_vars

-----------------------------------------------------------------------------
(* What a handled request shows *)

served == req.handler # "idle"

\* the calls of the request that change the comment service
is_mutation(call) == call.op \in MutationOps

mutations == SelectSeq(req.calls, is_mutation)

performed(op, on) == \E i \in 1..Len(req.calls) : req.calls[i].op = op /\ req.calls[i].on = on

\* the request as the router passed it to the view
request_of(r) == Request(r.handler, r.user, r.kwargs, r.post, r.env)

\* the gate found no content under the id of the route
content_missing ==
    /\ req.gated
    /\ gate_kind(req.kwargs) # "none"
    /\ gate_id(req.kwargs) \notin
           (IF gate_kind(req.kwargs) = "thread" THEN DOMAIN threads ELSE DOMAIN comments)

\* the depth check of create_comment or create_sub_comment rejects the request
too_deep ==
    LET max == settings.MAX_COMMENT_DEPTH IN
    /\ max # None
    /\ \/ req.handler = "create_comment" /\ max[1] < 0
       \/ req.handler = "create_sub_comment" /\ max[1] <= comments[req.kwargs.comment_id].depth

-----------------------------------------------------------------------------
(* C1 *)

TextHandlers == {"create_thread", "update_thread", "create_comment",
                 "create_sub_comment", "update_comment"}
TitleHandlers == {"create_thread", "update_thread"}

\* the text is missing from the payload, empty, or made of whitespace only
no_text(post, key) ==
    key \in DOMAIN post => \A i \in 1..Len(post[key]) : post[key][i] \in Whitespace

blank_title == req.handler \in TitleHandlers /\ no_text(req.post, "title")

\* the request is a create or update request with a blank title or body
blank_text ==
    /\ served
    /\ req.handler \in TextHandlers
    /\ (blank_title \/ no_text(req.post, "body"))

\* C1: a create or update request (create_thread, update_thread,
\* create_comment, create_sub_comment, update_comment) whose title or body is
\* missing, empty or whitespace-only issues no remote mutation, and its
\* response is the validation error, status 400, "Title can't be empty" (the
\* title is checked first) or "Body can't be empty", unless the request was
\* turned away before the handler's validation: by the gate (content not
\* found, or 401), by the course lookup of create_thread, or by the depth
\* check of the comment handlers.
C1_BlankTextRejected ==
    blank_text =>
        /\ mutations = <<>>
        /\ req.published = <<>>
        /\ req.response =
              IF content_missing THEN Raised("CommentClientRequestError")
              ELSE IF ~req.env.permit THEN JsonError("unauthorized", 401)
              ELSE IF req.handler = "create_thread" /\ ~req.env.course.access
                   THEN Raised("Http404")
              ELSE IF too_deep THEN JsonError(S_too_deep, 400)
              ELSE IF blank_title THEN JsonError(S_title_empty, 400)
              ELSE JsonError(S_body_empty, 400)

\* a whitespace-only title reached the validation of create_thread, and a
\* whitespace-only body that of a comment handler
C1_Witness ==
    /\ blank_text
    /\ \/ /\ req.handler = "create_thread"
          /\ "title" \in DOMAIN req.post /\ req.post.title # <<>>
          /\ req.response = JsonError(S_title_empty, 400)
       \/ /\ req.handler = "create_sub_comment"
          /\ "body" \in DOMAIN req.post /\ req.post.body # <<>>
          /\ req.response = JsonError(S_body_empty, 400)

-----------------------------------------------------------------------------
(* C2, C3 *)

NotifyingHandlers == {"create_comment", "vote_for_thread", "follow_thread"}

\* the handler made the change it is there for
mutated ==
    \/ req.handler \in {"create_comment", "create_sub_comment"} /\ performed("save", "comment")
    \/ req.handler = "vote_for_thread" /\ performed("vote", "thread")
    \/ req.handler = "follow_thread" /\ performed("follow", "thread")

\* the id of the author of the thread the request is about
author ==
    IF req.handler = "create_sub_comment"
    THEN int(threads[comments[req.kwargs.comment_id].thread_id[1]].user_id)
    ELSE int(threads[req.kwargs.thread_id].user_id)

one_published_to_author ==
    /\ Len(req.published) = 1
    /\ req.published[1].to = author
    /\ req.published[1].action_user_id = req.user

\* C2 as stated: every request to create_comment, create_sub_comment,
\* vote_for_thread or follow_thread that performs its mutation publishes
\* exactly one notification to the thread author when the acting user is not
\* the author and none when it is, and no other handler publishes.
C2_AsStated ==
    served =>
        IF req.handler \in NotifyingHandlers \cup {"create_sub_comment"}
        THEN mutated =>
                IF req.user # author THEN one_published_to_author
                ELSE req.published = <<>>
        ELSE req.published = <<>>

\* C2, amended: exactly one notification is published, to the thread author,
\* when the handler is create_comment, vote_for_thread or follow_thread, it
\* performed its mutation, NOTIFICATIONS_ENABLED is set, the acting user id
\* differs from the thread author id and the publisher did not raise; in
\* every other request, of create_sub_comment and of all other handlers
\* included, none is published.
C2_PublishedIff ==
    served =>
        IF /\ req.handler \in NotifyingHandlers
           /\ mutated
           /\ "NOTIFICATIONS_ENABLED" \in DOMAIN settings.FEATURES
           /\ settings.FEATURES.NOTIFICATIONS_ENABLED
           /\ req.env.fault = "none"
           /\ req.user # author
        THEN one_published_to_author
        ELSE req.published = <<>>

\* a follower who is not the author is announced to the author, and in
\* another behaviour the author follows their own thread with notifications on
C2_Witness ==
    /\ served
    /\ req.handler = "follow_thread"
    /\ mutated
    /\ req.user # author
    /\ one_published_to_author

\* the publisher was called and one of its calls raised
publisher_failed ==
    /\ performed("get_notification_type", "notification")
    /\ req.env.fault # "none"

\* C3: whenever the mutation of create_comment, vote_for_thread or
\* follow_thread has succeeded and the notification publisher then fails, the
\* handler still returns its normal success response.
C3_FailureTolerated ==
    (served /\ req.handler \in NotifyingHandlers /\ mutated /\ publisher_failed)
        => req.response.status = 200

-----------------------------------------------------------------------------
(* C4 *)

\* C4: for every handler wrapped by the permission gate, once the content of
\* the route is found: when the permission check denies, the response is the
\* unauthorized error with status 401, the wrapped handler is not invoked and
\* the comment service is not changed; when it allows, the wrapped handler is
\* invoked exactly once with the unchanged request and arguments, and its
\* response and its effects are those of the request.
C4_Gate ==
    [][(req'.gated /\ ~fetch_raises(req'.kwargs, Ctx0)) =>
          LET rq == request_of(req')
              c1 == fetch_content(rq.kwargs, Ctx0)
              done == view(rq, [c1 EXCEPT !.invoked = <<rq>>])
          IN  IF rq.env.permit
              THEN /\ req'.invoked = <<rq>>
                   /\ req'.response = done.response
                   /\ req'.calls = done.ctx.calls
                   /\ threads' = done.ctx.threads
                   /\ comments' = done.ctx.comments
              ELSE /\ req'.response = JsonError("unauthorized", 401)
                   /\ req'.invoked = <<>>
                   /\ req'.calls = c1.calls
                   /\ req'.published = <<>>
                   /\ threads' = threads
                   /\ comments' = comments
      ]_vars

\* the gate denied a request that would have deleted a thread
C4_Witness ==
    /\ served
    /\ req.handler = "delete_thread"
    /\ ~req.env.permit
    /\ req.kwargs.thread_id \in DOMAIN threads
    /\ req.response = JsonError("unauthorized", 401)

-----------------------------------------------------------------------------
(* C5 *)

\* the handler body ran: the gate let the request through
entered == served /\ req.invoked # <<>>

\* a comment was saved by the request, as the reply to the given parent
saved_reply(parent_id) ==
    /\ performed("save", "comment")
    /\ \E id \in DOMAIN comments :
          /\ id \notin 1..(MaxDepth + 1)
          /\ comments[id].parent_id = parent_id
          /\ comments[id].depth =
                IF parent_id = None THEN 0 ELSE comments[parent_id[1]].depth + 1

\* C5: create_sub_comment rejects a reply whose parent comment depth is
\* greater than or equal to the configured maximum depth with "Comment level
\* too deep" and saves no comment; a configured maximum below 0 makes
\* create_comment reject thread-level comments too; when the maximum is not
\* configured (None) or not reached, creation proceeds: the request is not
\* rejected for its depth, and with a body and an accessible course the
\* comment is saved.
C5_DepthLimit ==
    LET max == settings.MAX_COMMENT_DEPTH
        parent == req.kwargs.comment_id
        rejected == /\ req.response = JsonError(S_too_deep, 400)
                    /\ mutations = <<>>
                    /\ DOMAIN comments = 1..(MaxDepth + 1)
        proceeds(parent_id) ==
            /\ req.response.error # S_too_deep
            /\ (~no_text(req.post, "body") /\ req.env.course.access)
                  => saved_reply(parent_id)
    IN  /\ (entered /\ req.handler = "create_sub_comment") =>
              IF max # None /\ comments[parent].depth >= max[1]
              THEN rejected ELSE proceeds(Some(parent))
        /\ (entered /\ req.handler = "create_comment") =>
              IF max # None /\ max[1] < 0 THEN rejected ELSE proceeds(None)

\* a reply to a comment at exactly the maximum depth was rejected, the
\* maximum being 1
C5_Witness ==
    /\ entered
    /\ req.handler = "create_sub_comment"
    /\ settings.MAX_COMMENT_DEPTH = Some(1)
    /\ comments[req.kwargs.comment_id].depth = 1
    /\ ~no_text(req.post, "body")
    /\ req.response = JsonError(S_too_deep, 400)

-----------------------------------------------------------------------------
(* C6 *)

\* C6: after an update_thread request that saves, every thread field whose
\* key is absent from the payload (thread_type, commentable_id, and all
\* fields the handler never assigns) has the value it had when the thread
\* was fetched; only title, body and the fields present in the payload are
\* overwritten, with the values of the payload.
C6_PartialUpdate ==
    [][(req'.handler = "update_thread"
        /\ \E i \in 1..Len(req'.calls) : req'.calls[i].op = "save") =>
          LET id == req'.kwargs.thread_id
              post == req'.post
              fetched == threads[id]
              saved == threads'[id]
          IN  /\ DOMAIN threads' = DOMAIN threads
              /\ DOMAIN saved = DOMAIN fetched
              /\ \A f \in DOMAIN fetched :
                    saved[f] =
                        IF f \in {"title", "body"} THEN post[f]
                        ELSE IF f \in {"thread_type", "commentable_id"} /\ f \in DOMAIN post
                             THEN post[f]
                        ELSE fetched[f]
              /\ \A other \in DOMAIN threads \ {id} : threads'[other] = threads[other]
              /\ comments' = comments
      ]_vars

\* an update with only title and body in its payload was saved: the title is
\* the new one and the thread type and topic are those of the seeded thread
C6_Witness ==
    /\ served
    /\ req.handler = "update_thread"
    /\ performed("save", "thread")
    /\ DOMAIN req.post = {"title", "body"}
    /\ threads[req.kwargs.thread_id].title = T_new
    /\ threads[req.kwargs.thread_id].thread_type = T_discussion
    /\ threads[req.kwargs.thread_id].commentable_id = 1

-----------------------------------------------------------------------------
(* C7 *)

is_unflag(call) == call.op = "unFlagAbuse"

\* C7: un_flag_abuse_for_thread and un_flag_abuse_for_comment pass
\* remove_all = true to the comment service if and only if the acting user
\* has the moderation permission ('openclose_thread') in the course or staff
\* access to it; for every other user remove_all is false; the one call is
\* made on behalf of the acting user, on the content of the route, and it is
\* the only mutation of the request.
C7_RemoveAllOnlyForModerators ==
    (entered /\ req.handler \in {"un_flag_abuse_for_thread", "un_flag_abuse_for_comment"}) =>
        LET unflags == SelectSeq(req.calls, is_unflag) IN
        /\ Len(unflags) = 1
        /\ mutations = unflags
        /\ unflags[1].by = req.user
        /\ unflags[1].id = gate_id(req.kwargs)
        /\ unflags[1].on = gate_kind(req.kwargs)
        /\ unflags[1].arg = IF req.env.moderator \/ req.env.staff THEN "True" ELSE "False"

\* a user with neither the moderation permission nor staff access removed a
\* flag from a comment
C7_Witness ==
    /\ entered
    /\ req.handler = "un_flag_abuse_for_comment"
    /\ ~req.env.moderator /\ ~req.env.staff
    /\ performed("unFlagAbuse", "comment")

-----------------------------------------------------------------------------
(* C8 *)

is_thread_save(call) == call.op = "save" /\ call.on = "thread"

\* create_thread came to resolve the group id: the gate allowed, the course
\* was loaded, title and body are not blank and the thread was constructed
resolving_group ==
    /\ entered
    /\ req.handler = "create_thread"
    /\ req.env.course.access
    /\ ~no_text(req.post, "title")
    /\ ~no_text(req.post, "body")
    /\ "thread_type" \in DOMAIN req.post

\* C8: in create_thread, when the group-id resolution raises ValueError the
\* request is rejected with HTTP 400 "Invalid cohort id" and the thread is
\* neither saved nor followed; when it yields no group id the thread is saved
\* without a group id, and when it yields an id the saved thread carries
\* exactly that id.
C8_CohortId ==
    resolving_group =>
        LET saves == SelectSeq(req.calls, is_thread_save) IN
        IF req.env.group.raises
        THEN /\ req.response = HttpResponseBadRequest("Invalid cohort id")
             /\ mutations = <<>>
             /\ DOMAIN threads = {1}
        ELSE /\ req.response.status = 200
             /\ Len(saves) = 1
             /\ saves[1].id \in DOMAIN threads \ {1}
             /\ threads[saves[1].id].group_id = req.env.group.value

\* an invalid cohort id rejected a thread that asked to be subscribed to, and
\* nothing was saved or followed
C8_Witness ==
    /\ resolving_group
    /\ req.env.group.raises
    /\ flag(req.post, "auto_subscribe")
    /\ req.response.status = 400
    /\ mutations = <<>>

-----------------------------------------------------------------------------
(* C9 *)

\* C9: whenever store_uploaded_file raises (a file of a type that is not
\* allowed, a file over the size limit, or any other failure), upload returns
\* a result with a non-empty error, an empty msg and an empty file_url and
\* does not raise, and for an exception other than PermissionDenied the error
\* is the fixed generic message; only when storing succeeds is msg 'Good',
\* and then file_url is the stored URL reduced to scheme, host and path.
C9_UploadResult ==
    (served /\ req.handler = "upload") =>
        LET stored == store_uploaded_file(req.env.file, ALLOWED_UPLOAD_FILE_TYPES,
                                          req.env.base_file_name, MAX_UPLOAD_FILE_SIZE,
                                          req.env.storage)
            result == req.response.content[1]
        IN  /\ req.response.status = 200
            /\ req.response.content # None
            /\ IF stored.raises # "none"
               THEN /\ result.error # ""
                    /\ result.msg = ""
                    /\ result.file_url = <<>>
                    /\ stored.raises # "PermissionDenied" => result.error = S_upload_error
               ELSE /\ result.msg = "Good"
                    /\ result.error = ""
                    /\ result.file_url = req.env.storage.base \o stored.name
                    /\ \A i \in 1..Len(result.file_url) :
                          result.file_url[i] \notin {"?", "#", ";"}

\* the storage failed with a message of its own, and in another behaviour a
\* file over the size limit was turned away
C9_Witness ==
    /\ served
    /\ req.handler = "upload"
    /\ req.env.file # None
    /\ \/ req.env.storage.raises /\ req.env.storage.msg = "disk full"
          /\ req.env.file[1].ext \in ALLOWED_UPLOAD_FILE_TYPES
          /\ req.env.file[1].size <= MAX_UPLOAD_FILE_SIZE
       \/ req.env.file[1].size > MAX_UPLOAD_FILE_SIZE
    /\ req.response.content[1].file_url = <<>>
    /\ req.response.content[1].error # ""

-----------------------------------------------------------------------------
(* C10 *)

\* C10: users answers 404 when the course is missing or not accessible,
\* whatever the parameters; else 400 when the username parameter is missing;
\* else a list of at most one user: the user with exactly that username, when
\* there is one and threads_count + comments_count > 0 for it in the course,
\* and the empty list otherwise.
C10_UserLookup ==
    (served /\ req.handler = "users") =>
        IF ~req.env.course.access THEN req.response = JsonError("", 404)
        ELSE IF "username" \notin DOMAIN req.post
             THEN req.response = JsonError("username parameter is required", 400)
        ELSE LET list == req.response.content[1].users
                 holders == {u \in Users : username(u) = req.post.username}
                 activity == req.env.counts.threads_count + req.env.counts.comments_count
             IN  /\ req.response.status = 200
                 /\ Len(list) <= 1
                 /\ IF holders # {} /\ activity > 0
                    THEN \E u \in holders : list = <<[id |-> u, username |-> req.post.username]>>
                    ELSE list = <<>>

\* the username is that of a user with no thread and no comment in the
\* course, and the list is empty
C10_Witness ==
    /\ served
    /\ req.handler = "users"
    /\ req.env.course.access
    /\ "username" \in DOMAIN req.post
    /\ \E u \in Users : username(u) = req.post.username
    /\ req.env.counts = Counts(0, 0)
    /\ req.response.content[1].users = <<>>

-----------------------------------------------------------------------------
(* C11 *)

is_save(call) == call.op = "save"

\* the thread or comment a save of the request stored
saved_content(call) ==
    IF call.on = "thread" THEN threads[call.id] ELSE comments[call.id]

\* the payload asks for the flag: its value is 'true' in any case of letters
asked(post, key) == key \in DOMAIN post /\ lower(post[key]) = <<"t", "r", "u", "e">>

\* C11: every thread or comment saved by create_thread, create_comment or
\* create_sub_comment has anonymous = false whenever the course's
\* allow_anonymous is false and anonymous_to_peers = false whenever
\* allow_anonymous_to_peers is false, whatever the payload says; when the
\* course allows it the flag is true exactly when the payload value equals
\* 'true' case-insensitively.
C11_AnonymityAsCourseAllows ==
    (served /\ req.handler \in {"create_thread", "create_comment", "create_sub_comment"}) =>
        LET saves == SelectSeq(req.calls, is_save) IN
        \A i \in 1..Len(saves) :
            /\ saved_content(saves[i]).anonymous =
                  (req.env.course.allow_anonymous /\ asked(req.post, "anonymous"))
            /\ saved_content(saves[i]).anonymous_to_peers =
                  (req.env.course.allow_anonymous_to_peers
                   /\ asked(req.post, "anonymous_to_peers"))

\* a reply asked to be anonymous in a course that does not allow it and was
\* saved as not anonymous, while anonymity to peers, allowed, was kept
C11_Witness ==
    /\ served
    /\ req.handler = "create_sub_comment"
    /\ ~req.env.course.allow_anonymous
    /\ req.env.course.allow_anonymous_to_peers
    /\ asked(req.post, "anonymous")
    /\ asked(req.post, "anonymous_to_peers")
    /\ \E i \in 1..Len(req.calls) :
          /\ is_save(req.calls[i])
          /\ ~saved_content(req.calls[i]).anonymous
          /\ saved_content(req.calls[i]).anonymous_to_peers

-----------------------------------------------------------------------------
(* C12 *)

\* the request just handled is an update_thread that came to look its topic
\* up: the gate allowed, title and body are not blank, the thread exists, the
\* payload carries a commentable_id and the course was loaded
checking_topic ==
    /\ req'.handler = "update_thread"
    /\ req'.invoked # <<>>
    /\ ~no_text(req'.post, "title")
    /\ ~no_text(req'.post, "body")
    /\ req'.kwargs.thread_id \in DOMAIN threads
    /\ "commentable_id" \in DOMAIN req'.post
    /\ req'.env.course.access

\* C12: in update_thread, a commentable_id of the payload that is not among
\* the discussion category ids of the course is rejected with the validation
\* error "Topic doesn't exist" (HTTP 400) and the thread is not saved: the
\* comment service holds the title, body, thread_type and commentable_id it
\* held before; when the id is among them the saved thread carries it.
C12_UnknownTopic ==
    [][checking_topic =>
          LET id == req'.kwargs.thread_id
              topic == req'.post.commentable_id
          IN  IF topic \in req'.env.course.categories
              THEN /\ \E i \in 1..Len(req'.calls) :
                         /\ req'.calls[i].op = "save"
                         /\ req'.calls[i].on = "thread"
                         /\ req'.calls[i].id = id
                   /\ threads'[id].commentable_id = topic
                   /\ req'.response.status = 200
              ELSE /\ req'.response = JsonError("Topic doesn't exist", 400)
                   /\ \A i \in 1..Len(req'.calls) :
                         req'.calls[i].op \notin {"save", "follow", "delete"}
                   /\ threads' = threads
                   /\ comments' = comments
      ]_vars

\* an update with a new title, a new thread type and an unknown topic was
\* rejected, and the thread still has its old title, type and topic
C12_Witness ==
    /\ served
    /\ req.handler = "update_thread"
    /\ req.response = JsonError("Topic doesn't exist", 400)
    /\ "title" \in DOMAIN req.post /\ req.post.title = T_new
    /\ "thread_type" \in DOMAIN req.post /\ req.post.thread_type = T_question
    /\ "commentable_id" \in DOMAIN req.post /\ req.post.commentable_id = 3
    /\ threads[req.kwargs.thread_id].title = T_old
    /\ threads[req.kwargs.thread_id].thread_type = T_discussion
    /\ threads[req.kwargs.thread_id].commentable_id = 1

-----------------------------------------------------------------------------
(* C13 *)

\* the positions in the call log of the calls to the notification publisher
notification_calls == {i \in 1..Len(req.calls) : req.calls[i].on = "notification"}

\* the positions of the mutation the handler is there for: the save of the
\* comment, the vote, the follow
mutation_calls ==
    {i \in 1..Len(req.calls) :
        /\ req.calls[i].by = req.user
        /\ \/ req.handler = "create_comment"
              /\ req.calls[i].op = "save" /\ req.calls[i].on = "comment"
           \/ req.handler = "vote_for_thread"
              /\ req.calls[i].op = "vote" /\ req.calls[i].on = "thread"
           \/ req.handler = "follow_thread"
              /\ req.calls[i].op = "follow" /\ req.calls[i].on = "thread"}

\* the positions of the follow that auto_subscribe asks create_comment for
subscribe_calls ==
    {i \in 1..Len(req.calls) :
        req.handler = "create_comment" /\ req.calls[i].op = "follow"}

\* the gate turned the request away, or the handler answered a validation error
rejected == req.invoked = <<>> \/ req.response.status \in {400, 401}

\* C13: in create_comment, vote_for_thread and follow_thread no call to the
\* notification publisher is made, and no notification is published, before
\* the mutation of the handler (comment save / vote / follow) has been made;
\* the follow of auto_subscribe comes after the save and before the
\* publisher; and a request rejected by the permission gate or by validation
\* makes no publisher call, publishes nothing and mutates nothing.
C13_StepOrder ==
    (served /\ req.handler \in NotifyingHandlers) =>
        /\ \A i \in notification_calls : \E j \in mutation_calls : j < i
        /\ \A k \in subscribe_calls :
              /\ \E j \in mutation_calls : j < k
              /\ \A i \in notification_calls : k < i
        /\ req.published # <<>> => notification_calls # {} /\ mutation_calls # {}
        /\ rejected =>
              /\ notification_calls = {}
              /\ req.published = <<>>
              /\ mutation_calls = {}

\* a comment with auto_subscribe by a user who is not the author: the save,
\* the follow and the publication came in this order
C13_Witness ==
    /\ served
    /\ req.handler = "create_comment"
    /\ Len(req.published) = 1
    /\ \E j \in mutation_calls : \E k \in subscribe_calls : \E i \in notification_calls :
          j < k /\ k < i

-----------------------------------------------------------------------------
(* C14 *)

\* NOTIFICATIONS_ENABLED is false or absent
flag_off ==
    \/ "NOTIFICATIONS_ENABLED" \notin DOMAIN settings.FEATURES
    \/ ~settings.FEATURES.NOTIFICATIONS_ENABLED

\* the thread is looked up again after the comment was saved
extra_lookup ==
    \E i \in 1..Len(req.calls) : \E j \in (i + 1)..Len(req.calls) :
        /\ req.calls[i].op = "save" /\ req.calls[i].on = "comment"
        /\ req.calls[j].op = "find" /\ req.calls[j].on = "thread"

\* what create_comment does and answers when nothing is to be notified
comment_outcome ==
    LET max == settings.MAX_COMMENT_DEPTH
        id == MaxDepth + 2
        save == <<Call("save", "comment", id, req.user, "")>>
        follow == IF asked(req.post, "auto_subscribe")
                  THEN <<Call("follow", "thread", req.kwargs.thread_id, req.user, "")>>
                  ELSE <<>>
    IN  IF max # None /\ max[1] < 0
        THEN req.response = JsonError("Comment level too deep", 400) /\ mutations = <<>>
        ELSE IF no_text(req.post, "body")
        THEN req.response = JsonError("Body can't be empty", 400) /\ mutations = <<>>
        ELSE IF ~req.env.course.access
        THEN req.response = Raised("Http404") /\ mutations = <<>>
        ELSE /\ req.response = JsonResponse(Entity("comment", id), req.env.ajax)
             /\ mutations = save \o follow
             /\ comments[id].body = req.post.body
             /\ comments[id].thread_id = Some(req.kwargs.thread_id)

\* C14: while NOTIFICATIONS_ENABLED is false or absent no handler publishes a
\* notification, calls the publisher or looks the thread up again for it,
\* whatever the actor and the author are; and the mutations and the response
\* of create_comment, vote_for_thread and follow_thread are then the ones the
\* request has with the flag set and the actor the author of the thread:
\* both are the outcome stated here, which depends on neither.
C14_FlagOff ==
    served =>
        /\ flag_off =>
              /\ req.published = <<>>
              /\ notification_calls = {}
              /\ ~extra_lookup
        /\ (entered /\ req.handler \in NotifyingHandlers /\ (flag_off \/ req.user = author)) =>
              /\ req.published = <<>>
              /\ notification_calls = {}
              /\ CASE req.handler = "vote_for_thread" ->
                        /\ mutations = <<Call("vote", "thread", req.kwargs.thread_id,
                                              req.user, req.kwargs.value)>>
                        /\ req.response =
                              JsonResponse(Entity("thread", req.kwargs.thread_id), FALSE)
                   [] req.handler = "follow_thread" ->
                        /\ mutations = <<Call("follow", "thread", req.kwargs.thread_id,
                                              req.user, "")>>
                        /\ req.response = JsonResponse(Entity("empty", 0), FALSE)
                   [] req.handler = "create_comment" -> comment_outcome

\* with the flag set to false a user who is not the author of the thread
\* commented on it, while the publisher was failing: the comment is saved,
\* the response is the comment and nothing was published
C14_Witness ==
    /\ served
    /\ req.handler = "create_comment"
    /\ settings.FEATURES = [NOTIFICATIONS_ENABLED |-> FALSE]
    /\ entered
    /\ req.user # author
    /\ req.env.fault # "none"
    /\ performed("save", "comment")
    /\ req.response.status = 200
    /\ req.published = <<>>

====
